---- MODULE Spec2Model ----
(***************************************************************************)
(* State-machine model of the French Toast alerting engine:                *)
(*   french_toast/alert.py   FrenchToastAlerter (check_status, send_alerts,*)
(*                           alert, _response_hook, ...)                   *)
(*   french_toast/auth.py    store_data / send_initial_alert               *)
(*   french_toast/storage.py Teams and Status tables                       *)
(* Strings that the code transforms (status codes) are sequences of        *)
(* one-character strings, so that str.upper() is computed, not assumed.    *)
(***************************************************************************)
EXTENDS Integers, Sequences, FiniteSets, TLC

\* ------------------------------------------------------------------ bounds
\* Number of status commits (datetime.now() readings) explored.
MaxClock == 2

\* Number of rows the teams table can hold.
MaxTeams == 2

\* ------------------------------------------------------------- primitives
\* Python None for a nullable DateTime column / attribute.
NoTs == 0
\* Python None for the nullable url column.
NoUrl == "None"
\* Python None where a str is expected (a status or a level).
NONE == <<"None">>

LowerCase == <<"a","b","c","d","e","f","g","h","i","j","k","l","m",
               "n","o","p","q","r","s","t","u","v","w","x","y","z">>
UpperCase == <<"A","B","C","D","E","F","G","H","I","J","K","L","M",
               "N","O","P","Q","R","S","T","U","V","W","X","Y","Z">>

\* str.upper() on one character.
upper_char(c) ==
    IF \E i \in 1..Len(LowerCase) : LowerCase[i] = c
    THEN UpperCase[CHOOSE i \in 1..Len(LowerCase) : LowerCase[i] = c]
    ELSE c

\* str.upper()
upper(s) == [i \in 1..Len(s) |-> upper_char(s[i])]

LOW      == <<"L","O","W">>
GUARDED  == <<"G","U","A","R","D","E","D">>
ELEVATED == <<"E","L","E","V","A","T","E","D">>
HIGH     == <<"H","I","G","H">>
SEVERE   == <<"S","E","V","E","R","E">>

\* The keys of the alert-level mapping.
ALERT_LEVELS == {LOW, GUARDED, ELEVATED, HIGH, SEVERE}

\* The stored status before the first observation.
Sentinel == <<>>

\* Row 1 of the status table as first created.
InitialStatusRow == [status |-> Sentinel, updated |-> NoTs]

\* ------------------------------------------------------------ input sets
Procs == {"p1", "p2"}
Workers == {"w1", "w2"}
Threads == Procs \cup Workers
Alerters == {"a1", "a2"}
StatusCodes == {200, 404, 500}

\* The registrations requested: team, channel and webhook url.
Registrations == { <<"T1", "C1", "u1">>, <<"T1", "C1", "u2">>, <<"T1", "C2", "u2">> }

\* args['state'] of a /validate request: no such key, an empty value, a token
\* older than 60 minutes, a token with a bad signature, a signed token of
\* another client id, or a valid token.
ArgStates == {"missing", "empty", "expired", "forged", "foreign", "valid"}

\* args['code'] of a /validate request: no such key, an empty value, or a code.
ArgCodes == {"missing", "empty", "given"}

\* What oauth.access does: it raises slacker's Error, raises another
\* exception (the connection fails), returns an unsuccessful result, returns
\* a body without incoming_webhook, or returns the info.
OAuthResults == {"Error", "ConnectionError", "unsuccessful", "no_webhook", "ok"}

\* Text content of the upstream <status> element, as served.
RawCodes == { <<"H","i","g","h">>, <<"B","L","I","Z","Z","A","R","D">> }

\* Children of the root element of the upstream document.
Docs == { <<>>,
          <<[tag |-> "status", text |-> NONE]>>,
          <<[tag |-> "updated", text |-> HIGH],
            [tag |-> "status", text |-> <<"l","o","w">>]>> }
        \cup { <<[tag |-> "status", text |-> c]>> : c \in RawCodes }

\* What requests.get + raise_for_status + ElementTree.fromstring can yield.
Responses == { [kind |-> k, elems |-> <<>>] :
                 k \in {"request_error", "empty_body", "parse_error"} }
             \cup { [kind |-> "xml", elems |-> d] : d \in Docs }

VARIABLES
    status_row,   \* Status row id 1 in the database: [status, updated]
    teams,        \* Teams table in the database: sequence of rows, index = primary key
    alerter,      \* per FrenchToastAlerter instance: its attributes
    inst,         \* which alerter instance each invocation runs on
    clock,        \* last value datetime.now() returned
    session,      \* per listener thread: the objects its DB.session holds
    th            \* per invocation or request: program counter and locals

vars == <<status_row, teams, alerter, inst, clock, session, th>>

\* ------------------------------------------------------- pure operations

\* Mutant: every status has a level.
_get_level_from_status_any(status) == [level |-> status, events |-> <<>>]

\* FrenchToastAlerter._get_level_from_status: the level and the events.
_get_level_from_status(status) ==
    IF status \notin ALERT_LEVELS
    THEN [level |-> NONE, events |-> <<"unknown_status">>]
    ELSE [level |-> status, events |-> <<>>]

\* FrenchToastAlerter._get_raw_xml: whether text is returned, and the events.
_get_raw_xml(resp) ==
    CASE resp.kind = "request_error" -> [ok |-> FALSE, events |-> <<"request_exception">>]
      [] resp.kind = "empty_body" -> [ok |-> FALSE, events |-> <<>>]
      [] OTHER -> [ok |-> TRUE, events |-> <<>>]

\* FrenchToastAlerter._get_status_from_xml: first child tagged 'status'.
_get_status_from_xml(elems) ==
    LET hits == {i \in 1..Len(elems) : elems[i].tag = "status"}
        status == IF hits = {} THEN NONE
                  ELSE elems[CHOOSE i \in hits : \A j \in hits : i <= j].text
    IN IF status = NONE
       THEN [status |-> NONE, events |-> <<"invalid_xml_status">>]
       ELSE [status |-> upper(status), events |-> <<>>]

\* Mutant: only a missing status counts as bad data.
bad_data_status_only(new_status, new_level) == new_status = NONE

\* check_status line 72: the bad-data test.
bad_data(new_status, new_level) == new_status = NONE \/ new_level = NONE

\* Mutant: every valid fetch counts as a change.
status_changed_always(new_status, current) == TRUE

\* check_status line 81.
status_changed(new_status, current) == new_status # current

\* Python None for self._xml (line 55): no document parsed yet.
NoXml == <<[tag |-> "None", text |-> NONE]>>

\* FrenchToastAlerter.__init__: the attributes of an alerter built when row 1
\* is row; current_status names the session that holds the object loaded.
FrenchToastAlerter(owner, row) ==
    [current_status |-> owner, status |-> row.status, timestamp |-> row.updated,
     level |-> _get_level_from_status(row.status).level, xml |-> NoXml]

\* Mutant: the commit leaves the updated column as it was.
_store_new_status_keeps_time(row, new, status, now) ==
    [status |-> IF new.status # status THEN status ELSE row.status,
     updated |-> row.updated]

\* _store_new_status lines 246-250: row 1 after the commit. new is the object
\* of line 242 as the session held it; the UPDATE sets the columns whose value
\* differs from the one loaded.
_store_new_status(row, new, status, now) ==
    [status  |-> IF new.status # status THEN status ELSE row.status,
     updated |-> IF new.updated # now THEN now ELSE row.updated]

\* send_alerts line 102: primary keys of the rows with inactive == False.
ActiveTeams(rows) == SelectSeq([i \in 1..Len(rows) |-> i], LAMBDA i : ~rows[i].inactive)

\* send_alerts line 110.
ShouldPost(force, last_alerted, timestamp) == force \/ last_alerted # timestamp

\* Mutant: the payload carries the time of sending, later than the commit.
_get_message_content_time_of_sending(a) ==
    [color |-> a.level, title |-> a.level, text |-> a.level, img |-> a.level,
     ts |-> clock + 1]

\* _get_message_content: the level each of color, title, text and thumb_url
\* is taken from, and the ts, for an alerter in the state a.
_get_message_content(a) ==
    [color |-> a.level, title |-> a.level, text |-> a.level, img |-> a.level,
     ts |-> a.timestamp]

\* _response_hook lines 295-325: the row after the commit for a response with
\* status code. team is the object of line 284 as the session held it; the
\* UPDATE sets the columns whose value differs from the one loaded.
_response_hook_row(row, team, code, timestamp) ==
    IF code # 404 /\ code # 200
    THEN row
    ELSE [row EXCEPT
            !.inactive = IF code = 404 /\ ~team.inactive THEN TRUE ELSE @,
            !.last_alerted = IF team.last_alerted # timestamp THEN timestamp ELSE @]

\* _response_hook: the events it reports for a located team.
_response_hook_events(code) ==
    IF code = 404 THEN <<"team_marked_inactive">>
    ELSE IF code # 200 THEN <<"bad_slack_request">> ELSE <<>>

\* Teams.set_url: the Fernet token kept in encrypted_url.
set_url(url) == <<"fernet", url>>

\* Teams.__init__: set_url fills encrypted_url only; url, last_alerted stay NULL.
Teams(team_id, channel_id, url) ==
    [team_id |-> team_id, channel_id |-> channel_id, url |-> NoUrl,
     encrypted_url |-> set_url(url), last_alerted |-> NoTs, inactive |-> FALSE]

\* A lookup on team_id alone.
filter_by_team_only(rows, team_id, channel_id) ==
    {i \in 1..Len(rows) : rows[i].team_id = team_id}

\* store_data line 125: rows matching team_id and channel_id.
filter_by(rows, team_id, channel_id) ==
    {i \in 1..Len(rows) : rows[i].team_id = team_id /\ rows[i].channel_id = channel_id}

\* Query.first(): the row with the lowest primary key.
first(ids) == CHOOSE i \in ids : \A j \in ids : i <= j

\* store_data lines 125-128: the primary key of the row found, 0 for None.
store_data_select(rows, team_id, channel_id) ==
    LET found == filter_by(rows, team_id, channel_id)
    IN IF found = {} THEN 0 ELSE first(found)

\* storage.py line 37: url is UNIQUE, so the commit of the update of the row
\* team, loaded with the url loaded, raises IntegrityError when the url is a
\* new one that another row holds.
IntegrityError(rows, team, loaded, url) ==
    /\ team # 0
    /\ url # loaded
    /\ \E j \in 1..Len(rows) : j # team /\ rows[j].url = url

\* store_data lines 130-156: the table after the commit, for the row the
\* select had found (team, 0 for none) with the url loaded: an INSERT, or an
\* UPDATE of url when the url assigned differs from the one loaded.
store_data_commit(rows, team, loaded, info) ==
    IF team = 0
    THEN Append(rows, Teams(info.team_id, info.channel_id, info.url))
    ELSE IF info.url = loaded \/ IntegrityError(rows, team, loaded, info.url)
         THEN rows
         ELSE [rows EXCEPT ![team].url = info.url]

\* ---------------------------------------------------------------- state
NoResponse == [kind |-> "none", elems |-> <<>>]

NoArgs == [team_id |-> "", channel_id |-> "", url |-> NoUrl]

NoMessage == [color |-> NONE, title |-> NONE, text |-> NONE, img |-> NONE,
              ts |-> NoTs]

\* An object a session holds with its attributes loaded.
Loaded(row) == [loaded |-> TRUE, row |-> row]

\* An object a session does not hold, or holds expired.
NotLoaded(row) == [loaded |-> FALSE, row |-> row]

\* A session with nothing loaded: a new one, or any session after
\* DB.session.commit(), which expires every object it holds.
EmptySession ==
    [status |-> NotLoaded(InitialStatusRow),
     teams |-> [t \in 1..MaxTeams |-> NotLoaded(Teams("", "", NoUrl))]]

\* The session of the thread that built its alerter: __init__ loaded row 1.
SessionAfterInit(row) == [EmptySession EXCEPT !.status = Loaded(row)]

Idle == [pc |-> "idle", op |-> "none", force |-> FALSE,
         seen |-> InitialStatusRow, now |-> NoTs,
         resp |-> NoResponse,
         new_status |-> NONE, changed |-> "unset", exc |-> "",
         sel |-> <<>>, idx |-> 0, msg |-> NoMessage,
         req |-> NoUrl, calls |-> <<>>, posts |-> <<>>, events |-> <<>>,
         args |-> NoArgs, team |-> 0, loaded |-> NoUrl,
         new |-> InitialStatusRow,
         tmp |-> NONE, tmp_ts |-> NoTs, found |-> 0, code |-> 0,
         round |-> 1, first |-> "none", posts1 |-> <<>>, ts1 |-> NoTs,
         abandoned |-> FALSE]

\* FrenchToastAlerter.__init__ on the freshly created tables, in the thread
\* that then listens (run).
Init ==
    /\ status_row = InitialStatusRow
    /\ teams = <<>>
    /\ inst = [p \in Procs |-> IF p = "p1" THEN "a1" ELSE "a2"]
    /\ alerter = [a \in Alerters |->
                    FrenchToastAlerter(IF a = "a1" THEN "p1" ELSE "p2", InitialStatusRow)]
    /\ session = [p \in Procs |-> SessionAfterInit(InitialStatusRow)]
    /\ clock = 0
    /\ th = [p \in Threads |-> Idle]

Me(p) == alerter[inst[p]]

\* The row an attribute read through self.current_status of the alerter a
\* gives: the object is the one the owner's session holds, loaded from row 1
\* at the read when it is expired. The object __init__ loaded in the main
\* thread of a daemon is in a session that never commits.
current_status(a) ==
    LET owner == alerter[a].current_status
    IN IF owner = "main" THEN InitialStatusRow
       ELSE IF session[owner].status.loaded THEN session[owner].status.row
            ELSE status_row

\* The sessions after that attribute read.
current_status_read(a) ==
    LET owner == alerter[a].current_status
    IN IF owner = "main" THEN session
       ELSE [session EXCEPT ![owner].status = Loaded(current_status(a))]

\* The object of row 1 in the session of p is referenced by an alerter, so
\* the session's weak identity map keeps it.
Pinned(p) == \E a \in Alerters : alerter[a].current_status = p

\* _get_current_status, Status.query.get(1) in the session of p: the rows the
\* object returned can hold. An object loaded and not expired is returned as
\* it is, with no SELECT; one that nothing references any more may have been
\* collected, and is then loaded anew.
_get_current_status(p) ==
    IF ~session[p].status.loaded THEN {status_row}
    ELSE IF Pinned(p) THEN {session[p].status.row}
    ELSE {session[p].status.row, status_row}

\* The object of the team row t in the session of p is referenced by the list
\* of send_alerts or by the argument of send_alert.
TeamPinned(p, t) ==
    \/ \E i \in 1..Len(th[p].sel) : th[p].sel[i] = t
    \/ th[p].op = "send_alert" /\ th[p].team = t

\* A query of the session of p returns the team row t: the rows the object can
\* hold (as _get_current_status).
team_get(p, t) ==
    IF ~session[p].teams[t].loaded THEN {teams[t]}
    ELSE IF TeamPinned(p, t) THEN {session[p].teams[t].row}
    ELSE {session[p].teams[t].row, teams[t]}

\* How an invocation ends: normally, or by the exception exc.
Finish(p, rec) == th' = [th EXCEPT ![p] = [rec EXCEPT !.pc = "done"]]

Running == {q \in Threads : th[q].pc # "idle"}

\* ------------------------------------------------------------- actions

\* _listener.handle_message -> alert(): a trigger arrives.
alert(p) ==
    /\ th[p].pc = "idle"
    /\ clock + Cardinality({q \in Running : th[q].op = "alert"}) < MaxClock
    /\ th' = [th EXCEPT ![p] = [Idle EXCEPT !.pc = "refresh", !.op = "alert"]]
    /\ UNCHANGED <<status_row, teams, alerter, inst, clock, session>>

\* _refresh_current line 169, right-hand side: Status.query.get(1) returns.
refresh_get(p) ==
    /\ th[p].pc = "refresh"
    /\ \E row \in _get_current_status(p) :
         /\ session' = [session EXCEPT ![p].status = Loaded(row)]
         /\ th' = [th EXCEPT ![p].pc = "refresh_current",
                             ![p].seen = IF th[p].changed = "unset" THEN row ELSE @]
    /\ UNCHANGED <<status_row, teams, alerter, inst, clock>>

\* _refresh_current line 169: self.current_status is assigned.
refresh_current(p) ==
    /\ th[p].pc = "refresh_current"
    /\ alerter' = [alerter EXCEPT ![inst[p]].current_status = p]
    /\ th' = [th EXCEPT ![p].pc = "refresh_status_read"]
    /\ UNCHANGED <<status_row, teams, inst, clock, session>>

\* _refresh_current line 170, right-hand side: self.current_status.status.
refresh_status_read(p) ==
    /\ th[p].pc = "refresh_status_read"
    /\ session' = current_status_read(inst[p])
    /\ th' = [th EXCEPT ![p].pc = "refresh_status",
                        ![p].tmp = current_status(inst[p]).status]
    /\ UNCHANGED <<status_row, teams, alerter, inst, clock>>

\* _refresh_current line 170: self.status is assigned.
refresh_status(p) ==
    /\ th[p].pc = "refresh_status"
    /\ alerter' = [alerter EXCEPT ![inst[p]].status = th[p].tmp]
    /\ th' = [th EXCEPT ![p].pc = "refresh_timestamp_read", ![p].tmp = NONE]
    /\ UNCHANGED <<status_row, teams, inst, clock, session>>

\* _refresh_current line 171, right-hand side: self.current_status.updated.
refresh_timestamp_read(p) ==
    /\ th[p].pc = "refresh_timestamp_read"
    /\ session' = current_status_read(inst[p])
    /\ th' = [th EXCEPT ![p].pc = "refresh_timestamp",
                        ![p].tmp_ts = current_status(inst[p]).updated]
    /\ UNCHANGED <<status_row, teams, alerter, inst, clock>>

\* _refresh_current line 171: self.timestamp is assigned.
refresh_timestamp(p) ==
    /\ th[p].pc = "refresh_timestamp"
    /\ alerter' = [alerter EXCEPT ![inst[p]].timestamp = th[p].tmp_ts]
    /\ th' = [th EXCEPT ![p].pc = "refresh_level_read", ![p].tmp_ts = NoTs]
    /\ UNCHANGED <<status_row, teams, inst, clock, session>>

\* _refresh_current line 172, right-hand side:
\* self._get_level_from_status(self.status).
refresh_level_read(p) ==
    /\ th[p].pc = "refresh_level_read"
    /\ th' = [th EXCEPT ![p].pc = "refresh_level",
                        ![p].tmp = _get_level_from_status(Me(p).status).level,
                        ![p].events = @ \o _get_level_from_status(Me(p).status).events]
    /\ UNCHANGED <<status_row, teams, alerter, inst, clock, session>>

\* _refresh_current line 172: self.level is assigned; back in check_status
\* (line 63) or, from _store_new_status, in alert.
refresh_level(p) ==
    /\ th[p].pc = "refresh_level"
    /\ alerter' = [alerter EXCEPT ![inst[p]].level = th[p].tmp]
    /\ th' = [th EXCEPT ![p].pc = IF th[p].changed = "True" THEN "select" ELSE "fetch",
                        ![p].tmp = NONE]
    /\ UNCHANGED <<status_row, teams, inst, clock, session>>

\* check_status lines 67-78 for the status obtained: the level is resolved and
\* bad data reported (return False), or the comparison is next.
check_status_level(p, rec, status) ==
    LET lv == _get_level_from_status(status)
        got == [rec EXCEPT !.new_status = status, !.events = @ \o lv.events]
    IN IF bad_data(status, lv.level)
       THEN Finish(p, [got EXCEPT !.changed = "False",
                                  !.events = @ \o <<"bad_status_change">>])
       ELSE th' = [th EXCEPT ![p] = [got EXCEPT !.pc = "compare"]]

\* check_status line 66, _get_status lines 213-220 up to the parse: the
\* request returns. Without text _get_status returns None; text that is no
\* XML makes ElementTree.fromstring raise.
check_status_fetch(p) ==
    /\ th[p].pc = "fetch"
    /\ \E resp \in Responses :
         LET raw == _get_raw_xml(resp)
             rec == [th[p] EXCEPT !.resp = resp, !.events = @ \o raw.events]
         IN IF ~raw.ok
            THEN check_status_level(p, rec, NONE)
            ELSE IF resp.kind = "parse_error"
                 THEN Finish(p, [rec EXCEPT !.exc = "ParseError"])
                 ELSE th' = [th EXCEPT ![p] = [rec EXCEPT !.pc = "parse"]]
    /\ UNCHANGED <<status_row, teams, alerter, inst, clock, session>>

\* _get_status line 220: self._xml is assigned the parsed document.
_get_status(p) ==
    /\ th[p].pc = "parse"
    /\ alerter' = [alerter EXCEPT ![inst[p]].xml = th[p].resp.elems]
    /\ th' = [th EXCEPT ![p].pc = "from_xml"]
    /\ UNCHANGED <<status_row, teams, inst, clock, session>>

\* _get_status line 222: _get_status_from_xml reads self._xml (line 195);
\* check_status lines 67-78 follow.
get_status_from_xml(p) ==
    /\ th[p].pc = "from_xml"
    /\ LET got == _get_status_from_xml(Me(p).xml)
       IN check_status_level(p, [th[p] EXCEPT !.events = @ \o got.events], got.status)
    /\ UNCHANGED <<status_row, teams, alerter, inst, clock, session>>

\* check_status line 81: status_changed = (new_status != self.status);
\* lines 87-88 when it is False.
check_status_compare(p) ==
    /\ th[p].pc = "compare"
    /\ IF status_changed(th[p].new_status, Me(p).status)
       THEN th' = [th EXCEPT ![p].pc = "store", ![p].changed = "True"]
       ELSE Finish(p, [th[p] EXCEPT !.changed = "False"])
    /\ UNCHANGED <<status_row, teams, alerter, inst, clock, session>>

\* _store_new_status line 242: new = Status.query.get(1). The values the
\* object was loaded with are kept for the UPDATE of the commit.
check_status_store(p) ==
    /\ th[p].pc = "store"
    /\ \E row \in _get_current_status(p) :
         /\ session' = [session EXCEPT ![p].status = Loaded(row)]
         /\ th' = [th EXCEPT ![p].pc = "now", ![p].new = row]
    /\ UNCHANGED <<status_row, teams, alerter, inst, clock>>

\* _store_new_status line 243: now = datetime.now().
store_now(p) ==
    /\ th[p].pc = "now"
    /\ clock < MaxClock
    /\ clock' = clock + 1
    /\ th' = [th EXCEPT ![p].pc = "set_status", ![p].now = clock']
    /\ UNCHANGED <<status_row, teams, alerter, inst, session>>

\* _store_new_status line 246: new.status = status, on the object of the
\* session (the one self.current_status refers to when this thread assigned
\* it last).
store_status(p) ==
    /\ th[p].pc = "set_status"
    /\ session' = [session EXCEPT ![p].status.row.status = th[p].new_status]
    /\ th' = [th EXCEPT ![p].pc = "set_updated"]
    /\ UNCHANGED <<status_row, teams, alerter, inst, clock>>

\* _store_new_status line 247: new.updated = now.
store_updated(p) ==
    /\ th[p].pc = "set_updated"
    /\ session' = [session EXCEPT ![p].status.row.updated = th[p].now]
    /\ th' = [th EXCEPT ![p].pc = "commit"]
    /\ UNCHANGED <<status_row, teams, alerter, inst, clock>>

\* _store_new_status line 250: DB.session.commit(); the commit expires the
\* objects of the session. Line 253 then calls _refresh_current.
store_commit(p) ==
    /\ th[p].pc = "commit"
    /\ status_row' = _store_new_status(status_row, th[p].new,
                                       th[p].new_status, th[p].now)
    /\ session' = [session EXCEPT ![p] = EmptySession]
    /\ th' = [th EXCEPT ![p].pc = "refresh", ![p].new = InitialStatusRow]
    /\ UNCHANGED <<teams, alerter, inst, clock>>

\* A direct call of send_alerts(force) on an alerter.
send_alerts(p, force) ==
    /\ th[p].pc = "idle"
    /\ th' = [th EXCEPT ![p] = [Idle EXCEPT !.pc = "select", !.op = "send_alerts",
                                           !.force = force]]
    /\ UNCHANGED <<status_row, teams, alerter, inst, clock, session>>

\* send_alerts line 102: the query for the active teams. The rows are those
\* active in the database; a row whose object the session holds loaded (keep)
\* comes back as that object, unchanged.
send_alerts_query(p) ==
    /\ th[p].pc = "select"
    /\ LET sel == ActiveTeams(teams)
           ids == {sel[i] : i \in 1..Len(sel)}
       IN \E keep \in SUBSET {t \in ids : session[p].teams[t].loaded} :
            /\ session' = [session EXCEPT ![p].teams =
                             [t \in 1..MaxTeams |->
                                IF t \in ids /\ t \notin keep
                                THEN Loaded(teams[t]) ELSE @[t]]]
            /\ th' = [th EXCEPT ![p].pc = "msg_color", ![p].sel = sel]
    /\ UNCHANGED <<status_row, teams, alerter, inst, clock>>

\* _get_message_content: one read of self.level (None raises TypeError).
msg_read(p, here, field, next) ==
    /\ th[p].pc = here
    /\ IF Me(p).level = NONE
       THEN Finish(p, [th[p] EXCEPT !.exc = "TypeError"])
       ELSE th' = [th EXCEPT ![p].pc = next,
                             ![p].msg[field] = _get_message_content(Me(p))[field]]
    /\ UNCHANGED <<status_row, teams, alerter, inst, clock, session>>

\* _get_message_content line 260: self.level['color'].
msg_color(p) == msg_read(p, "msg_color", "color", "msg_title")

\* _get_message_content line 263: self.level['title'].
msg_title(p) == msg_read(p, "msg_title", "title", "msg_text")

\* _get_message_content line 264: self.level['text'].
msg_text(p) == msg_read(p, "msg_text", "text", "msg_img")

\* _get_message_content line 265: self.level['img'].
msg_img(p) == msg_read(p, "msg_img", "img", "msg_ts")

\* _get_message_content line 266: self.timestamp.timestamp() (None raises
\* AttributeError); the message is built.
msg_ts(p) ==
    /\ th[p].pc = "msg_ts"
    /\ IF Me(p).timestamp = NoTs
       THEN Finish(p, [th[p] EXCEPT !.exc = "AttributeError"])
       ELSE th' = [th EXCEPT ![p].pc = IF th[p].op = "send_alert" THEN "single"
                                       ELSE "loop",
                             ![p].idx = IF th[p].op = "send_alert" THEN 0 ELSE 1,
                             ![p].msg.ts = _get_message_content(Me(p)).ts]
    /\ UNCHANGED <<status_row, teams, alerter, inst, clock, session>>

\* The request for the team t with the message m, not yet answered.
Request(t, m) ==
    [team |-> t, color |-> m.color, title |-> m.title, text |-> m.text,
     img |-> m.img, ts |-> m.ts, code |-> 0]

\* The object of the team row t as an attribute read in the session of p gives
\* it: loaded from the table at the read when it is expired.
team_read(p, t) ==
    IF session[p].teams[t].loaded THEN session[p].teams[t].row ELSE teams[t]

\* session.post(team.url, ...), lines 92-96 and 112-116, for the object team
\* of the row t: the url is no URL (MissingSchema), or the request is sent and
\* the answer awaited, or the connection fails.
post(p, t, team) ==
    LET entry == Request(t, th[p].msg)
    IN IF team.url = NoUrl
       THEN Finish(p, [th[p] EXCEPT !.exc = "MissingSchema", !.calls = Append(@, t)])
       ELSE \/ th' = [th EXCEPT ![p].pc = "response",
                                ![p].req = team.url,
                                ![p].calls = Append(@, t),
                                ![p].posts = Append(@, entry)]
            \/ Finish(p, [th[p] EXCEPT !.exc = "ConnectionError",
                                       !.calls = Append(@, t),
                                       !.posts = Append(@, entry)])

\* send_alerts lines 110 and 113: the first attribute read of a team object
\* that a commit of the response hook has expired loads it from its row.
send_alerts_team(p) ==
    /\ th[p].pc = "loop"
    /\ th[p].idx <= Len(th[p].sel)
    /\ ~session[p].teams[th[p].sel[th[p].idx]].loaded
    /\ session' = [session EXCEPT ![p].teams[th[p].sel[th[p].idx]] =
                     Loaded(teams[th[p].sel[th[p].idx]])]
    /\ UNCHANGED <<status_row, teams, alerter, inst, clock, th>>

\* send_alerts lines 109-116: one turn of the loop, up to the request sent.
\* team.last_alerted and team.url are attributes of the object of line 102;
\* self.timestamp is read at line 110.
send_alerts_loop(p) ==
    /\ th[p].pc = "loop"
    /\ IF th[p].idx > Len(th[p].sel)
       THEN Finish(p, th[p])
       ELSE LET t == th[p].sel[th[p].idx]
                team == session[p].teams[t].row
            IN /\ session[p].teams[t].loaded
               /\ IF ~ShouldPost(th[p].force, team.last_alerted, Me(p).timestamp)
                  THEN th' = [th EXCEPT ![p].idx = @ + 1]
                  ELSE post(p, t, team)
    /\ UNCHANGED <<status_row, teams, alerter, inst, clock, session>>

\* _response_hook lines 274-319: the response to the request in flight
\* arrives with the status code; the team is looked up by the url of the
\* request. A team not found, or a code other than 200 and 404, ends the hook.
_response_hook(p, code) ==
    /\ th[p].pc = "response"
    /\ LET hits == {i \in 1..Len(teams) : teams[i].url = th[p].req}
           n == Len(th[p].posts)
           rec == [th[p] EXCEPT !.req = NoUrl, !.posts = [@ EXCEPT ![n].code = code]]
           back == [rec EXCEPT !.pc = "loop", !.idx = @ + 1]
       IN IF hits = {}
          THEN /\ th' = [th EXCEPT ![p] = [back EXCEPT !.events = Append(@, "team_not_found")]]
               /\ session' = session
          ELSE \E team \in team_get(p, first(hits)) :
                 /\ session' = [session EXCEPT ![p].teams[first(hits)] = Loaded(team)]
                 /\ th' = [th EXCEPT ![p] =
                      IF code # 404 /\ code # 200
                      THEN [back EXCEPT !.events = @ \o _response_hook_events(code)]
                      ELSE [rec EXCEPT !.pc = "hook_timestamp", !.found = first(hits),
                                       !.code = code,
                                       !.events = @ \o _response_hook_events(code)]]
    /\ UNCHANGED <<status_row, teams, alerter, inst, clock>>

\* _response_hook line 322, right-hand side: self.timestamp is read.
hook_timestamp(p) ==
    /\ th[p].pc = "hook_timestamp"
    /\ th' = [th EXCEPT ![p].pc = "hook_commit", ![p].tmp_ts = Me(p).timestamp]
    /\ UNCHANGED <<status_row, teams, alerter, inst, clock, session>>

\* _response_hook lines 308, 322 and 325: inactive and last_alerted of the
\* object are committed; the commit expires the objects of the session.
hook_commit(p) ==
    /\ th[p].pc = "hook_commit"
    /\ teams' = [teams EXCEPT ![th[p].found] =
                    _response_hook_row(@, session[p].teams[th[p].found].row,
                                       th[p].code, th[p].tmp_ts)]
    /\ session' = [session EXCEPT ![p] = EmptySession]
    /\ th' = [th EXCEPT ![p].pc = "loop", ![p].idx = @ + 1, ![p].found = 0,
                        ![p].code = 0, ![p].tmp_ts = NoTs]
    /\ UNCHANGED <<status_row, alerter, inst, clock>>

\* A direct call of send_alert(team) on an alerter, with the object of the
\* row t that the caller's query returned.
send_alert(p, t) ==
    /\ th[p].pc = "idle"
    /\ \E team \in team_get(p, t) :
         session' = [session EXCEPT ![p].teams[t] = Loaded(team)]
    /\ th' = [th EXCEPT ![p] = [Idle EXCEPT !.pc = "msg_color", !.op = "send_alert",
                                           !.team = t]]
    /\ UNCHANGED <<status_row, teams, alerter, inst, clock>>

\* send_alert lines 92-96: the request is sent with the message built.
send_alert_post(p) ==
    /\ th[p].pc = "single"
    /\ post(p, th[p].team, team_read(p, th[p].team))
    /\ session' = [session EXCEPT ![p].teams[th[p].team] = Loaded(team_read(p, th[p].team))]
    /\ UNCHANGED <<status_row, teams, alerter, inst, clock>>

\* validate_return lines 167-179 and store_data lines 125-139, 148-150: the
\* arguments and the state token are valid, get_token returns the info, the
\* query for the pair's row returns, and the event is reported. (The waits
\* before the query touch nothing shared.)
validate_return(w, team_id, channel_id, url) ==
    /\ th[w].pc = "idle"
    /\ LET team == store_data_select(teams, team_id, channel_id)
           adding == {q \in Workers : th[q].pc = "store_data" /\ th[q].team = 0}
       IN /\ team = 0 => Len(teams) + Cardinality(adding) < MaxTeams
          /\ th' = [th EXCEPT ![w] =
                   [Idle EXCEPT !.pc = "store_data", !.op = "validate_return",
                                !.force = TRUE,
                                !.args = [team_id |-> team_id,
                                          channel_id |-> channel_id, url |-> url],
                                !.team = team,
                                !.loaded = IF team = 0 THEN NoUrl ELSE teams[team].url,
                                !.events = IF team = 0 THEN <<"team_added">>
                                           ELSE <<"team_updated">>]]
    /\ UNCHANGED <<status_row, teams, alerter, inst, clock, session>>

\* A request goes on to the next call of validate_return.
Passes == [events |-> <<>>, exc |-> ""]

\* validate_return lines 168-170: args['state'] and args['code'] are
\* subscripted (a missing key raises KeyError, nothing is reported); an empty
\* value reports missing_args and aborts.
validate_args(state, code) ==
    IF state = "missing" THEN [events |-> <<>>, exc |-> "KeyError"]
    ELSE IF state = "empty" THEN [events |-> <<"missing_args">>, exc |-> "abort(400)"]
    ELSE IF code = "missing" THEN [events |-> <<>>, exc |-> "KeyError"]
    ELSE IF code = "empty" THEN [events |-> <<"missing_args">>, exc |-> "abort(400)"]
    ELSE Passes

\* validate_state lines 51-79.
validate_state(state) ==
    IF state = "expired" THEN [events |-> <<"token_expired">>, exc |-> "abort(400)"]
    ELSE IF state = "forged"
         THEN [events |-> <<"token_not_authorized">>, exc |-> "abort(401)"]
    ELSE IF state = "foreign"
         THEN [events |-> <<"token_not_valid">>, exc |-> "abort(401)"]
    ELSE Passes

\* get_token lines 82-120: only slacker's Error is caught; the body is
\* subscripted without a check.
get_token(oauth) ==
    IF oauth = "Error" THEN [events |-> <<"oauth_error">>, exc |-> "abort(400)"]
    ELSE IF oauth = "ConnectionError" THEN [events |-> <<>>, exc |-> "ConnectionError"]
    ELSE IF oauth = "unsuccessful"
         THEN [events |-> <<"oauth_unsuccessful">>, exc |-> "abort(400)"]
    ELSE IF oauth = "no_webhook" THEN [events |-> <<>>, exc |-> "KeyError"]
    ELSE Passes

\* validate_return lines 167-176: how the request ends before store_data is
\* called (Passes: it does not).
Refusal(state, code, oauth) ==
    IF validate_args(state, code) # Passes THEN validate_args(state, code)
    ELSE IF validate_state(state) # Passes THEN validate_state(state)
    ELSE get_token(oauth)

\* validate_return lines 167-176 for a request that does not reach
\* store_data: it ends by abort(400), abort(401) or an uncaught exception,
\* with the events reported until then.
validate_return_abort(w, state, code, oauth) ==
    /\ th[w].pc = "idle"
    /\ Refusal(state, code, oauth) # Passes
    /\ Finish(w, [Idle EXCEPT !.op = "validate_return",
                              !.events = Refusal(state, code, oauth).events,
                              !.exc = Refusal(state, code, oauth).exc])
    /\ UNCHANGED <<status_row, teams, alerter, inst, clock, session>>

\* store_data lines 140-143 and 153: DB.session.commit() of the new row or of
\* the new url.
store_data(w) ==
    /\ th[w].pc = "store_data"
    /\ teams' = store_data_commit(teams, th[w].team, th[w].loaded, th[w].args)
    /\ IF IntegrityError(teams, th[w].team, th[w].loaded, th[w].args.url)
       THEN Finish(w, [th[w] EXCEPT !.exc = "IntegrityError"])
       ELSE th' = [th EXCEPT ![w].pc = "send_initial_alert",
                             ![w].team = IF @ = 0 THEN Len(teams') ELSE @]
    /\ UNCHANGED <<status_row, alerter, inst, clock, session>>

\* send_initial_alert: FrenchToastAlerter() reads row 1 and resolves its
\* level; send_alert(team, True) is then called with one argument too many
\* and raises TypeError before anything is sent.
send_initial_alert(w) ==
    /\ th[w].pc = "send_initial_alert"
    /\ Finish(w, [th[w] EXCEPT !.exc = "TypeError",
                    !.events = @ \o _get_level_from_status(status_row.status).events])
    /\ UNCHANGED <<status_row, teams, alerter, inst, clock, session>>

\* The invocation has returned (or raised) to its caller; its locals are gone.
Return(p) ==
    /\ th[p].pc = "done"
    /\ th' = [th EXCEPT ![p] = Idle]
    /\ UNCHANGED <<status_row, teams, alerter, inst, clock, session>>

\* p runs or has run a first send_alerts pass without force, by a direct call
\* or inside alert().
Passed(p) ==
    /\ th[p].round = 1
    /\ ~th[p].force
    /\ th[p].op = "send_alerts" \/ (th[p].op = "alert" /\ th[p].changed = "True")

\* The second of two calls: what the first one sent is kept for comparison.
Again(p, abandoned) ==
    [Idle EXCEPT !.pc = "select", !.op = "send_alerts", !.round = 2,
                 !.first = th[p].op,
                 !.posts1 = th[p].posts, !.ts1 = th[p].msg.ts,
                 !.abandoned = abandoned]

\* When a pass or a send_alert call has ended, its caller calls send_alerts()
\* without force, in the same thread.
send_alerts_again(p) ==
    /\ th[p].pc = "done"
    /\ Passed(p) \/ th[p].op = "send_alert"
    /\ th' = [th EXCEPT ![p] = Again(p, FALSE)]
    /\ UNCHANGED <<status_row, teams, alerter, inst, clock, session>>

\* The process is stopped inside the loop of send_alerts: the pass is
\* abandoned and what it committed stays. The next process builds its alerter
\* from row 1 (__init__) in a new session, and send_alerts() is called in it
\* without force.
crash(p) ==
    /\ th[p].pc \in {"loop", "response", "hook_timestamp", "hook_commit"}
    /\ Passed(p)
    /\ th' = [th EXCEPT ![p] = Again(p, TRUE)]
    /\ alerter' = [alerter EXCEPT ![inst[p]] = FrenchToastAlerter(p, status_row)]
    /\ session' = [session EXCEPT ![p] = SessionAfterInit(status_row)]
    /\ UNCHANGED <<status_row, teams, inst, clock>>

\* The steps of alert() after its call.
Step(p) ==
    \/ refresh_get(p)
    \/ refresh_current(p)
    \/ refresh_status_read(p)
    \/ refresh_status(p)
    \/ refresh_timestamp_read(p)
    \/ refresh_timestamp(p)
    \/ refresh_level_read(p)
    \/ refresh_level(p)
    \/ check_status_fetch(p)
    \/ _get_status(p)
    \/ get_status_from_xml(p)
    \/ check_status_compare(p)
    \/ check_status_store(p)
    \/ store_now(p)
    \/ store_status(p)
    \/ store_updated(p)
    \/ store_commit(p)
    \/ send_alerts_query(p)
    \/ msg_color(p)
    \/ msg_title(p)
    \/ msg_text(p)
    \/ msg_img(p)
    \/ msg_ts(p)
    \/ send_alerts_team(p)
    \/ send_alerts_loop(p)
    \/ \E code \in StatusCodes : _response_hook(p, code)
    \/ hook_timestamp(p)
    \/ hook_commit(p)

\* The steps of a registration after the query of store_data.
WebStep(w) ==
    \/ store_data(w)
    \/ send_initial_alert(w)

\* One listener process, whose alerter handles one message at a time, and the
\* web application, a process of its own on the same database, which serves
\* one registration at a time at any moment of the listener's work.
Listener == {"p1"}

WebWorker == {"w1"}

\* pc = "done" is the instant at which a call returns or raises: Return, which
\* only discards the locals, belongs to the same instant, so no step of
\* another invocation is placed between the two.
Returned == \A q \in Threads : th[q].pc # "done"

Next ==
    \/ \E p \in Listener : Returned /\ alert(p)
    \/ \E w \in WebWorker, r \in Registrations :
          Returned /\ validate_return(w, r[1], r[2], r[3])
    \/ \E w \in WebWorker : Returned /\ WebStep(w)
    \/ \E p \in Listener : Returned /\ crash(p)
    \/ \E p \in Listener : Returned /\ Step(p)
    \/ \E p \in Listener : send_alerts_again(p)
    \/ \E q \in Threads : Return(q)

Spec == Init /\ [][Next]_vars

\* The steps an invocation takes by itself. The fetch of check_status and the
\* arrival of the response are not among them: requests.get (alert.py line
\* 179) and session.post (lines 92 and 112) are called without a timeout, so
\* they return when the remote end answers, if it ever does.
Local(p) ==
    \/ Return(p)
    \/ refresh_get(p)
    \/ refresh_current(p)
    \/ refresh_status_read(p)
    \/ refresh_status(p)
    \/ refresh_timestamp_read(p)
    \/ refresh_timestamp(p)
    \/ refresh_level_read(p)
    \/ refresh_level(p)
    \/ _get_status(p)
    \/ get_status_from_xml(p)
    \/ check_status_compare(p)
    \/ check_status_store(p)
    \/ store_now(p)
    \/ store_status(p)
    \/ store_updated(p)
    \/ store_commit(p)
    \/ send_alerts_query(p)
    \/ msg_color(p)
    \/ msg_title(p)
    \/ msg_text(p)
    \/ msg_img(p)
    \/ msg_ts(p)
    \/ send_alerts_team(p)
    \/ send_alerts_loop(p)
    \/ hook_timestamp(p)
    \/ hook_commit(p)
    \/ send_alert_post(p)

Fairness == \A p \in Procs : WF_vars(Local(p))

SpecLive == Init /\ [][Next]_vars /\ Fairness

\* A database that registrations have filled: the pair (T1, C1) registered
\* with u1 and (T1, C2) with u2, and re-registered with the urls given (NoUrl
\* when not re-registered).
Registered(urls) ==
    [i \in 1..Len(urls) |->
        [Teams("T1", <<"C1", "C2">>[i], <<"u1", "u2">>[i]) EXCEPT !.url = urls[i]]]

\* The table t after a pass delivered the status stored at the time la to
\* every team that has a url (NoTs: no pass yet).
Alerted(t, la) ==
    [i \in 1..Len(t) |-> IF t[i].url = NoUrl THEN t[i] ELSE [t[i] EXCEPT !.last_alerted = la]]

\* send_alerts and send_alert are called on the alerter of a process started
\* on a database that trigger cycles and registrations have filled before:
\* HIGH was stored at time 1 and delivered or not, and LOW at time 2 or not.
InitCalls ==
    /\ status_row \in {[status |-> HIGH, updated |-> 1], [status |-> LOW, updated |-> 2]}
    /\ clock = status_row.updated
    /\ teams \in {Alerted(t, la) :
                    t \in {Registered(<<"u1">>), Registered(<<"u1", "u2">>),
                           Registered(<<NoUrl, "u2">>)},
                    la \in {NoTs, 1}}
    /\ inst = [p \in Procs |-> IF p = "p1" THEN "a1" ELSE "a2"]
    /\ alerter = [a \in Alerters |->
                    FrenchToastAlerter(IF a = "a1" THEN "p1" ELSE "p2", status_row)]
    /\ session = [p \in Procs |-> SessionAfterInit(status_row)]
    /\ th = [p \in Threads |-> Idle]

NextCalls ==
    \/ \E p \in Listener, force \in BOOLEAN : Returned /\ send_alerts(p, force)
    \/ \E p \in Listener, t \in 1..Len(teams) : Returned /\ send_alert(p, t)
    \/ \E w \in WebWorker, r \in Registrations :
          Returned /\ validate_return(w, r[1], r[2], r[3])
    \/ \E w \in WebWorker, s \in ArgStates, c \in ArgCodes, o \in OAuthResults :
          Returned /\ validate_return_abort(w, s, c, o)
    \/ \E w \in WebWorker : Returned /\ WebStep(w)
    \/ \E p \in Listener : Returned /\ send_alert_post(p)
    \/ \E p \in Listener : Returned /\ crash(p)
    \/ \E p \in Listener : Returned /\ Step(p)
    \/ \E p \in Listener : send_alerts_again(p)
    \/ \E q \in Threads : Return(q)

SpecCalls == InitCalls /\ [][NextCalls]_vars

\* The delivery a registration is meant to make, and what follows it: on a
\* database where HIGH is stored, send_alert(team) is called for a registered
\* team on a new alerter, send_alerts() may follow, and triggers arrive, while
\* the web application serves registrations.
InitFirst ==
    /\ InitCalls
    /\ status_row.updated = 1
    /\ \A t \in 1..Len(teams) : teams[t].last_alerted = NoTs

NextFirst ==
    \/ \E p \in Listener, t \in 1..Len(teams) : Returned /\ send_alert(p, t)
    \/ \E p \in Listener : Returned /\ send_alert_post(p)
    \/ \E p \in Listener : Returned /\ alert(p)
    \/ \E w \in WebWorker, r \in Registrations :
          Returned /\ validate_return(w, r[1], r[2], r[3])
    \/ \E w \in WebWorker : Returned /\ WebStep(w)
    \/ \E p \in Listener : Returned /\ Step(p)
    \/ \E p \in Listener : send_alerts_again(p)
    \/ \E q \in Threads : Return(q)

SpecFirst == InitFirst /\ [][NextFirst]_vars

\* Two listeners handle triggers at once, on such a database. The listeners
\* are two threads of one alerter (run_daemon), built in the
\* main thread, each thread with a session of its own; or two processes, each
\* with its alerter.
InitConc ==
    /\ status_row = InitialStatusRow
    /\ teams \in {Registered(<<>>), Registered(<<"u1">>), Registered(<<NoUrl, "u2">>)}
    /\ \/ /\ inst = [p \in Procs |-> "a1"]
          /\ alerter = [a \in Alerters |-> FrenchToastAlerter("main", InitialStatusRow)]
          /\ session = [p \in Procs |-> EmptySession]
       \/ /\ inst = [p \in Procs |-> IF p = "p1" THEN "a1" ELSE "a2"]
          /\ alerter = [a \in Alerters |->
                          FrenchToastAlerter(IF a = "a1" THEN "p1" ELSE "p2",
                                             InitialStatusRow)]
          /\ session = [p \in Procs |-> SessionAfterInit(InitialStatusRow)]
    /\ clock = 0
    /\ th = [p \in Threads |-> Idle]

NextConc ==
    \/ \E p \in Procs : Returned /\ alert(p)
    \/ \E p \in Procs : Returned /\ Step(p)
    \/ \E p \in Procs : Return(p)

SpecConc == InitConc /\ [][NextConc]_vars

\* Two workers of the web application serve registrations at once.
NextWeb ==
    \/ \E w \in Workers, r \in Registrations :
          Returned /\ validate_return(w, r[1], r[2], r[3])
    \/ \E w \in Workers, s \in ArgStates, c \in ArgCodes, o \in OAuthResults :
          Returned /\ validate_return_abort(w, s, c, o)
    \/ \E w \in Workers : Returned /\ WebStep(w)
    \/ \E w \in Workers : Return(w)

SpecWeb == Init /\ [][NextWeb]_vars


\* ------------------------------------------------------------- properties

\* The text of the upstream status element as served (NONE when there is none).
FetchedCode(resp) ==
    IF resp.kind = "xml" /\ \E i \in 1..Len(resp.elems) : resp.elems[i].tag = "status"
    THEN resp.elems[CHOOSE i \in 1..Len(resp.elems) : resp.elems[i].tag = "status"].text
    ELSE NONE

\* The trigger cycle p has fetched the upstream document and _get_status has
\* returned.
Fetched(p) ==
    /\ th[p].op = "alert"
    /\ th[p].resp # NoResponse
    /\ th[p].pc \notin {"parse", "from_xml"}

\* check_status of the trigger cycle p has made its decision.
Decided(p) == th[p].op = "alert" /\ (th[p].changed # "unset" \/ th[p].pc = "done")

\* check_status of the trigger cycle p has returned.
Checked(p) ==
    /\ th[p].op = "alert"
    /\ \/ th[p].pc = "done"
       \/ th[p].changed = "True"
            /\ th[p].pc \in {"select", "msg_color", "msg_title", "msg_text",
                             "msg_img", "msg_ts", "loop", "response",
                             "hook_timestamp", "hook_commit"}

\* Teams of the table to which invocation p has sent a POST.
PostedTo(p) == {th[p].posts[i].team : i \in 1..Len(th[p].posts)}

\* The step taken is one of invocation p.
StepOf(p) == th'[p] # th[p]

\* C1: when the fetched code, upper-cased, is an alert level and differs from
\* the stored status, check_status stores it and returns True: row 1 holds the
\* upper-cased code and a newer updated timestamp, and the alerter's status,
\* timestamp and level are those of the stored row.
C1_ChangeIsStored ==
    \A p \in Procs :
        LET c == FetchedCode(th[p].resp)
        IN (/\ Fetched(p)
            /\ c # NONE
            /\ upper(c) \in ALERT_LEVELS
            /\ upper(c) # th[p].seen.status)
           => /\ th[p].pc # "done" \/ th[p].changed = "True"
              /\ Checked(p) =>
                    /\ th[p].changed = "True"
                    /\ status_row.status = upper(c)
                    /\ status_row.updated # th[p].seen.updated
                    /\ status_row.updated = clock
                    /\ current_status(inst[p]) = status_row
                    /\ Me(p).status = status_row.status
                    /\ Me(p).timestamp = status_row.updated
                    /\ Me(p).level = status_row.status

C1_Witness ==
    \E p \in Procs :
        /\ th[p].pc = "select" /\ th[p].op = "alert" /\ th[p].changed = "True"
        /\ th[p].seen.status = LOW
        /\ FetchedCode(th[p].resp) = <<"H","i","g","h">>
        /\ status_row.status = HIGH

\* C2: when the fetched code equals the stored status after upper-casing,
\* check_status returns False and the trigger cycle ends with no POST sent;
\* no step of the cycle changes row 1 or a row of the teams table.
C2_EqualIsNoChange ==
    /\ [](\A p \in Procs :
            LET c == FetchedCode(th[p].resp)
            IN (Decided(p) /\ c # NONE /\ upper(c) = th[p].seen.status)
               => /\ th[p].pc = "done"
                  /\ th[p].exc = ""
                  /\ th[p].changed = "False"
                  /\ status_row = th[p].seen
                  /\ th[p].calls = <<>>
                  /\ th[p].posts = <<>>)
    /\ [][\A p \in Procs :
            LET c == FetchedCode(th'[p].resp)
            IN (StepOf(p) /\ th'[p].op = "alert" /\ c # NONE
                   /\ upper(c) = th'[p].seen.status)
               => teams' = teams /\ status_row' = status_row]_vars

C2_Witness ==
    \E p \in Procs :
        /\ th[p].pc = "done" /\ th[p].op = "alert" /\ th[p].changed = "False"
        /\ th[p].seen.status = LOW
        /\ FetchedCode(th[p].resp) = <<"l","o","w">>
        /\ \E t \in 1..Len(teams) : ~teams[t].inactive /\ teams[t].url # NoUrl

\* The fetch failed, or served no usable status, or an unknown code.
Unusable(resp) ==
    \/ resp.kind \in {"request_error", "empty_body"}
    \/ resp.kind = "xml" /\ FetchedCode(resp) = NONE
    \/ resp.kind = "xml" /\ FetchedCode(resp) # NONE
                         /\ upper(FetchedCode(resp)) \notin ALERT_LEVELS

\* C3: when the fetch fails, the status element is absent or empty, or the
\* code is no alert level, check_status returns False and the trigger cycle
\* sends no POST; no step of the cycle changes row 1 or a row of the teams
\* table.
C3_BadFetchIsNoChange ==
    /\ [](\A p \in Procs :
            (Fetched(p) /\ Unusable(th[p].resp))
            => /\ th[p].pc = "done"
               /\ th[p].exc = ""
               /\ th[p].changed = "False"
               /\ status_row = th[p].seen
               /\ th[p].calls = <<>>
               /\ th[p].posts = <<>>)
    /\ [][\A p \in Procs :
            (StepOf(p) /\ th'[p].op = "alert" /\ Unusable(th'[p].resp))
            => teams' = teams /\ status_row' = status_row]_vars

C3_Witness ==
    \E p \in Procs :
        /\ th[p].pc = "done" /\ th[p].op = "alert"
        /\ FetchedCode(th[p].resp) = <<"B","L","I","Z","Z","A","R","D">>
        /\ th[p].seen.status = LOW
        /\ status_row.status = LOW
        /\ \E t \in 1..Len(teams) : ~teams[t].inactive /\ teams[t].url # NoUrl

\* How many times the sequence q holds x.
Count(q, x) == Cardinality({i \in 1..Len(q) : q[i] = x})

\* The members of the sequence q.
Range(q) == {q[i] : i \in 1..Len(q)}

\* C4: a trigger cycle whose check_status returned True runs one send_alerts
\* pass, and when the cycle is over session.post has been called exactly once
\* for every team that was active at selection and never for an inactive one.
C4_EveryActiveTeamOnce ==
    \A p \in Procs :
        (th[p].op = "alert" /\ th[p].pc = "done" /\ th[p].changed = "True")
        => \A t \in 1..Len(teams) :
              Count(th[p].calls, t) = IF t \in Range(th[p].sel) THEN 1 ELSE 0

\* p runs the second of two send_alerts calls made without force for the same
\* status timestamp.
SecondPass(p) ==
    /\ th[p].round = 2
    /\ th[p].ts1 # NoTs
    /\ th[p].ts1 = Me(p).timestamp

\* Teams whose delivery in the first call was answered with a code in codes.
Answered(p, codes) ==
    {th[p].posts1[i].team : i \in {j \in 1..Len(th[p].posts1) :
                                     th[p].posts1[j].code \in codes}}

\* C5: of two send_alerts calls without force for the same status timestamp,
\* no call posts twice to a team, and the second sends no POST to a team whose
\* delivery in the first was answered 200.
C5_SecondPassSkipsDelivered ==
    \A p \in Procs :
        /\ \A t \in 1..Len(teams) : Count(th[p].calls, t) <= 1
        /\ SecondPass(p) => \A t \in Answered(p, {200}) : t \notin PostedTo(p)

\* The team to which the request in flight of invocation p was sent.
InFlight(p) == th[p].posts[Len(th[p].posts)].team

\* The response hook of p handles a response carrying code.
Handles(p, code) ==
    /\ th[p].pc \in {"response", "hook_commit"}
    /\ th'[p].pc = "loop"
    /\ th'[p].posts[Len(th[p].posts)].code = code

\* C6: a delivery answered 404 sets the team's inactive flag; send_alerts
\* without force never sends a POST to a team whose flag is set; and the flag
\* is cleared, if ever, by a registration only.
C6_NotFoundDeactivates ==
    /\ [](\A p \in Procs :
            (th[p].pc = "response" /\ th[p].op \in {"alert", "send_alerts"}
                /\ ~th[p].force) => ~teams[InFlight(p)].inactive)
    /\ [][\A p \in Procs : Handles(p, 404) => teams'[InFlight(p)].inactive]_vars
    /\ [][\A t \in 1..Len(teams) :
            (teams[t].inactive /\ ~teams'[t].inactive)
               => \E w \in Workers : th[w].pc = "store_data" /\ StepOf(w)]_vars

\* C7: a delivery answered 404 leaves the team's last_alerted as it was.
C7_NotFoundKeepsLastAlerted ==
    [][\A p \in Procs :
         Handles(p, 404) =>
            \A t \in 1..Len(teams) : teams'[t].last_alerted = teams[t].last_alerted]_vars

\* C8: a delivery answered with a code other than 200 and 404 leaves the
\* team's inactive flag and last_alerted as they were, and the next
\* send_alerts call without force for the same status timestamp sends the
\* team a POST.
C8_TransientIsRetried ==
    /\ [][\A p \in Procs : Handles(p, 500) => teams' = teams]_vars
    /\ [](\A p \in Procs :
            (SecondPass(p) /\ th[p].pc = "done")
            => \A t \in Answered(p, {500}) :
                  (~teams[t].inactive /\ teams[t].last_alerted # th[p].ts1)
                  => t \in PostedTo(p))

\* C9: a trigger cycle that found the upstream status unchanged has called
\* session.post for every active team whose last_alerted differs from the
\* current status timestamp.
C9_LaggingTeamsRetriedByTrigger ==
    \A p \in Procs :
        (th[p].op = "alert" /\ th[p].pc = "done" /\ th[p].exc = ""
            /\ th[p].changed = "False" /\ ~Unusable(th[p].resp))
        => \A t \in 1..Len(teams) :
              (~teams[t].inactive /\ teams[t].last_alerted # status_row.updated)
              => t \in Range(th[p].calls)

\* C10: two trigger invocations that read the same stored status and fetched
\* the same new status send, between them, at most one POST to a team.
C10_NoDoubleDelivery ==
    \A p, q \in Procs :
        (/\ p # q
         /\ th[p].op = "alert" /\ th[q].op = "alert"
         /\ Fetched(p) /\ Fetched(q)
         /\ th[p].seen = th[q].seen
         /\ th[p].new_status = th[q].new_status)
        => PostedTo(p) \cap PostedTo(q) = {}

\* C11: of two concurrent check_status invocations that read the same stored
\* status and fetched the same new status, at most one returns True, and the
\* row is committed once for the change.
C11_SingleCommit ==
    \A p, q \in Procs :
        (/\ p # q
         /\ Checked(p) /\ Checked(q)
         /\ th[p].seen = th[q].seen
         /\ th[p].new_status = th[q].new_status)
        => /\ ~(th[p].changed = "True" /\ th[q].changed = "True")
           /\ status_row.updated <= th[p].seen.updated + 1

\* C12: a send_alerts pass that has sent a request ends only when session.post
\* has been called for every selected team that passes the test of line 110.
C12_FaultIsolation ==
    \A p \in Procs :
        (th[p].pc = "done" /\ th[p].calls # <<>> /\ th[p].op \in {"alert", "send_alerts"})
        => \A i \in 1..Len(th[p].sel) :
              \/ th[p].sel[i] \in Range(th[p].calls)
              \/ ~ShouldPost(th[p].force, teams[th[p].sel[i]].last_alerted,
                             th[p].msg.ts)

\* The registration w has committed its row and is over.
Registered_(w) ==
    /\ th[w].op = "validate_return" /\ th[w].pc = "done"
    /\ th[w].team # 0
    /\ th[w].exc # "IntegrityError"

\* C13: a registration whose store_data committed has called session.post
\* exactly once, for the registered team and for no other.
C13_RegistrationSendsOneForcedPost ==
    \A w \in Workers : Registered_(w) => th[w].calls = <<th[w].team>>

\* The registration w commits in this step, for a pair that has a row.
Updates(w) ==
    /\ th[w].pc = "store_data" /\ StepOf(w)
    /\ th[w].team # 0

\* C14: the commit of store_data for a pair whose row is inactive leaves the
\* row active, with the url supplied, and selected by the send_alerts query.
C14_ReRegistrationReactivates ==
    [][\A w \in Workers :
         (Updates(w) /\ teams[th[w].team].inactive)
         => /\ ~teams'[th[w].team].inactive
            /\ teams'[th[w].team].url = th[w].args.url
            /\ th[w].team \in Range(ActiveTeams(teams'))]_vars

\* C15: send_alert calls session.post not at all for a team that is inactive
\* or whose last_alerted equals the alerter's timestamp, and once otherwise.
C15_SendAlertSkips ==
    [][\A p \in Procs :
         (th[p].op = "send_alert" /\ th[p].pc = "single" /\ StepOf(p))
         => IF \/ teams[th[p].team].inactive
               \/ teams[th[p].team].last_alerted = Me(p).timestamp
            THEN th'[p].calls = <<>>
            ELSE th'[p].calls = <<th[p].team>>]_vars

\* The request e carries the color, title, text and image of the level lv.
BuiltFrom(e, lv) == e.color = lv /\ e.title = lv /\ e.text = lv /\ e.img = lv

\* The response hook has returned for the i-th request of invocation p.
Handled(p, i) ==
    i < Len(th[p].posts) \/ th[p].pc \notin {"response", "hook_timestamp", "hook_commit"}

\* C16: a trigger cycle that read the stored status LOW and fetched a code
\* whose upper case is HIGH stores HIGH; every payload it posts is built from
\* the level HIGH and carries the new updated timestamp of row 1; and a team
\* whose POST was answered 200 has that timestamp as its last_alerted.
C16_EndToEnd ==
    \A p \in Procs :
        (/\ Checked(p)
         /\ th[p].seen.status = LOW
         /\ FetchedCode(th[p].resp) # NONE
         /\ upper(FetchedCode(th[p].resp)) = HIGH)
        => /\ th[p].changed = "True"
           /\ status_row.status = HIGH
           /\ status_row.updated # th[p].seen.updated
           /\ \A i \in 1..Len(th[p].posts) :
                 /\ BuiltFrom(th[p].posts[i], HIGH)
                 /\ th[p].posts[i].ts = status_row.updated
                 /\ (Handled(p, i) /\ th[p].posts[i].code = 200)
                       => teams[th[p].posts[i].team].last_alerted = status_row.updated

\* C17: a check_status that read a valid stored status and fetched a code that
\* is no alert level has reported exactly one event when it returns.
C17_OneEventForUnknownCode ==
    \A p \in Procs :
        (/\ th[p].op = "alert" /\ th[p].pc = "done"
         /\ th[p].seen.status \in ALERT_LEVELS
         /\ FetchedCode(th[p].resp) # NONE
         /\ upper(FetchedCode(th[p].resp)) \notin ALERT_LEVELS)
        => Len(th[p].events) = 1

\* C18: every trigger invocation that has started ends, whatever the upstream
\* feed and the teams' endpoints do.
C18_TriggerTerminates ==
    \A p \in Procs :
        (th[p].op = "alert" /\ th[p].pc # "idle") ~> (th[p].pc \in {"done", "idle"})

C20_UrlNeverPlaintext ==
    \A t \in 1..Len(teams) : teams[t].url = NoUrl

\* C21: row 1 of the status table holds the initial value or an alert level,
\* whatever the trigger cycles fetched, and its updated column is empty
\* exactly as long as the status is the initial one.
C21_StatusIsSentinelOrLevel ==
    /\ status_row.status \in {Sentinel} \cup ALERT_LEVELS
    /\ status_row.status = Sentinel <=> status_row.updated = NoTs
    /\ DOMAIN status_row = {"status", "updated"}

C21_Witness ==
    \E p \in Procs :
        /\ th[p].op = "alert" /\ th[p].pc = "done"
        /\ FetchedCode(th[p].resp) = <<"B","L","I","Z","Z","A","R","D">>
        /\ th[p].seen.status = HIGH
        /\ status_row = th[p].seen

\* C22: a trigger cycle that read the initial stored status and fetched a
\* valid level code returns True from check_status, has committed that code,
\* and when it is over has called session.post for every team that was active
\* at selection.
C22_FirstRunSeedsDelivery ==
    \A p \in Procs :
        (/\ th[p].op = "alert" /\ th[p].pc = "done"
         /\ th[p].seen.status = Sentinel
         /\ FetchedCode(th[p].resp) # NONE
         /\ upper(FetchedCode(th[p].resp)) \in ALERT_LEVELS)
        => /\ th[p].changed = "True"
           /\ status_row.status = upper(FetchedCode(th[p].resp))
           /\ \A t \in Range(th[p].sel) : t \in Range(th[p].calls)

\* p runs a send_alerts pass, by a direct call or inside alert().
InPass(p) ==
    th[p].op = "send_alerts" \/ (th[p].op = "alert" /\ th[p].changed = "True")

\* C23: a send_alerts pass calls session.post for a team only if the team was
\* selected as active and force was given or its last_alerted differs from the
\* status timestamp; and when a pass that has built its message is over, it
\* has called session.post for every such team.
C23_BulkSelection ==
    /\ [][\A p \in Procs :
            (InPass(p) /\ Len(th'[p].calls) > Len(th[p].calls))
            => LET t == th'[p].calls[Len(th'[p].calls)]
               IN /\ t \in Range(th[p].sel)
                  /\ th[p].force \/ teams[t].last_alerted # Me(p).timestamp]_vars
    /\ [](\A p \in Procs :
            (InPass(p) /\ th[p].pc = "done" /\ th[p].idx >= 1)
            => \A t \in Range(th[p].sel) :
                  (th[p].force \/ teams[t].last_alerted # th[p].msg.ts)
                  => t \in Range(th[p].calls))

\* Teams to which the first call sent a request.
Reached(p) == {th[p].posts1[i].team : i \in 1..Len(th[p].posts1)}

\* C24: after a send_alerts pass was abandoned inside its loop, the
\* send_alerts call without force that follows for the same status timestamp
\* sends no POST to a team recorded with 200, and when it is over it has
\* called session.post for every active team the abandoned pass had not
\* reached and that still awaits the status.
C24_CrashMidFanout ==
    /\ [][\A p \in Procs :
            (SecondPass(p) /\ th[p].abandoned
                /\ Len(th'[p].posts) > Len(th[p].posts))
            => LET t == th'[p].posts[Len(th'[p].posts)].team
               IN ~(t \in Answered(p, {200}) /\ teams[t].last_alerted = th[p].ts1)]_vars
    /\ [](\A p \in Procs :
            (SecondPass(p) /\ th[p].abandoned /\ th[p].pc = "done")
            => \A t \in Range(th[p].sel) :
                  (t \notin Reached(p) /\ teams[t].last_alerted # th[p].ts1)
                  => t \in Range(th[p].calls))

\* C25: when a trigger cycle sends a request, check_status has returned True
\* and has committed the new status, and the level and the ts of the payload
\* are the status and the updated timestamp that row 1 holds at that moment.
C25_PersistBeforeNotify ==
    [][\A p \in Procs :
         (th[p].op = "alert" /\ Len(th'[p].posts) > Len(th[p].posts))
         => LET sent == th'[p].posts[Len(th'[p].posts)]
            IN /\ th[p].changed = "True"
               /\ status_row.status = th[p].new_status
               /\ status_row.updated # th[p].seen.updated
               /\ BuiltFrom(sent, status_row.status)
               /\ sent.ts = status_row.updated]_vars

C25_Witness ==
    \E p \in Procs :
        /\ th[p].op = "alert" /\ th[p].pc = "response"
        /\ Len(th[p].posts) = 2
        /\ th[p].seen.status = HIGH
        /\ BuiltFrom(th[p].posts[2], LOW)
        /\ th[p].posts[2].ts = 2
        /\ status_row = [status |-> LOW, updated |-> 2]

\* C26: when the response hook records a delivery, the last_alerted it writes
\* is the ts of the payload that was sent to that team.
C26_HookWritesPayloadTs ==
    [][\A p \in Procs :
         Handles(p, 200)
         => teams'[InFlight(p)].last_alerted = th[p].posts[Len(th[p].posts)].ts]_vars

\* The forced initial delivery of a registered team is over and was answered
\* 200: send_alert(team) as alert.py defines it, one POST with force.
Delivered(p) ==
    /\ th[p].op = "send_alert" /\ th[p].pc = "done" /\ th[p].exc = ""
    /\ Len(th[p].posts) = 1
    /\ th[p].posts[1].team = th[p].team
    /\ th[p].posts[1].code = 200

====
